---- MODULE Spec2Model ----
(***************************************************************************)
(* qllama: the terminal session loop (QllamaTerminal), its input parser    *)
(* and the model handlers (MistralHandler, SmolVLMHandler).                *)
(*                                                                         *)
(* A string is a sequence of lexemes: a blank, a word, or an attachment    *)
(* marker <tag:path>.  A path is its (stem, extension) pair, the split     *)
(* os.path.splitext makes.  None is 0; an object the backend returns is a  *)
(* positive number, fresh at every load.                                   *)
(***************************************************************************)
EXTENDS Integers, Sequences, FiniteSets, TLC

VARIABLES
    pc,          \* where the program is: QllamaTerminal.__init__, the loop, or an API caller
    handler,     \* the model handler object: kind, model, processor, tokenizer
    history,     \* QllamaTerminal.history
    hist0,       \* history as it was when the current turn began (observer)
    user_input,  \* the line last returned by input()
    messages,    \* the list last built by parse_user_input and given to generate
    response,    \* the text last returned by generate
    last,        \* what the loop did last (which branch of run() ended the turn)
    parsed,      \* the value of a direct parse_user_input call
    calls,       \* the handler's calls, in order: load_model and the backend's generate
    resolution,  \* a get_model_handler call: the name given and what came of it
    media,       \* load_image calls: their outcomes, and the temporary files left on disk
    loader_calls \* the media loader calls of the current turn's generate call, in order

vars == <<pc, handler, history, hist0, user_input, messages, response, last, parsed, calls,
          resolution, media, loader_calls>>

-----------------------------------------------------------------------------
(* Bounds *)

MaxInputLen == 3    \* lexemes in an input line given to parse_user_input
MaxTurns == 2       \* completed turns in a session
MaxCalls == 4       \* entries of the handler's call log

-----------------------------------------------------------------------------
(* Values of the variables a specification does not use *)

no_resolution == [name |-> <<>>, state |-> "none", class |-> "none", listed |-> {},
                  imported |-> FALSE, constructed |-> FALSE]
no_media == [results |-> <<>>, tmp |-> 0]

-----------------------------------------------------------------------------
(* Strings *)

Sp == [k |-> "sp"]
W(s) == [k |-> "w", s |-> s]
M(tag, p) == [k |-> "m", tag |-> tag, path |-> p]
P(stem, ext) == [stem |-> stem, ext |-> ext]

IsMarker(t) == t.k = "m"

\* str.lower() on the words and extensions the model uses
lower_word(s) ==
    CASE s = "Exit" -> "exit"
      [] s = "EXIT" -> "exit"
      [] s = "QUIT" -> "quit"
      [] s = "/Quit" -> "/quit"
      [] s = ".PNG" -> ".png"
      [] s = ".MP4" -> ".mp4"
      [] OTHER -> s

lower_token(t) ==
    CASE t.k = "w" -> W(lower_word(t.s))
      [] t.k = "m" -> M(t.tag, P(lower_word(t.path.stem), lower_word(t.path.ext)))
      [] OTHER -> t

lower(s) == [i \in 1..Len(s) |-> lower_token(s[i])]

RECURSIVE lstrip(_)
lstrip(s) == IF s # <<>> /\ Head(s) = Sp THEN lstrip(Tail(s)) ELSE s

RECURSIVE rstrip(_)
rstrip(s) ==
    IF s # <<>> /\ s[Len(s)] = Sp THEN rstrip(SubSeq(s, 1, Len(s) - 1)) ELSE s

strip(s) == rstrip(lstrip(s))

\* str.replace(old, ""), old one lexeme: every occurrence is removed
replace(s, old) == SelectSeq(s, LAMBDA t : t # old)

-----------------------------------------------------------------------------
(* QllamaTerminal.parse_user_input *)

ExitCommands == {<<W("exit")>>, <<W("quit")>>, <<W("/exit")>>, <<W("/quit")>>}
ImageExts == {".jpg", ".jpeg", ".png", ".gif", ".bmp"}
VideoExts == {".mp4", ".avi", ".mov", ".mkv"}

\* attachment_pattern.findall: the captured locator of every marker, in order
RECURSIVE findall(_)
findall(s) ==
    IF s = <<>> THEN <<>>
    ELSE IF IsMarker(Head(s)) THEN <<Head(s).path>> \o findall(Tail(s))
    ELSE findall(Tail(s))

\* os.path.splitext(attachment_path)[1].lower()
splitext_lower(p) == lower_word(p.ext)

\* the loop over attachments: st is [content, text]
extract_step(st, attachment_path) ==
    LET ext == splitext_lower(attachment_path) IN
    IF ext \in ImageExts THEN
        [content |-> Append(st.content, [type |-> "image", url |-> attachment_path]),
         text |-> replace(st.text, M("image", attachment_path))]
    ELSE IF ext \in VideoExts THEN
        [content |-> Append(st.content, [type |-> "video", path |-> attachment_path]),
         text |-> replace(st.text, M("video", attachment_path))]
    ELSE st

RECURSIVE extract(_, _)
extract(st, attachments) ==
    IF attachments = <<>> THEN st
    ELSE extract(extract_step(st, Head(attachments)), Tail(attachments))

\* line 68 without the strip()
is_exit_unstripped(line) == lower(line) \in ExitCommands

\* line 68: user_input.strip().lower() in ("exit", "quit", "/exit", "/quit")
is_exit(line) == lower(strip(line)) \in ExitCommands

\* the content list without lines 97-103: no text item is added
build_content_attachments_only(line) ==
    extract([content |-> <<>>, text |-> line], findall(line)).content

\* the content list built from a line (lines 71-103)
build_content(line) ==
    LET st == extract([content |-> <<>>, text |-> line], findall(line))
        text == strip(st.text)
    IN  IF text # <<>> THEN Append(st.content, [type |-> "text", text |-> text])
        ELSE st.content

\* line 109 written as self.history += messages: the history itself is extended
full_messages_in_place(hist, content) ==
    [list |-> hist \o <<[role |-> "user", content |-> content]>>,
     history |-> hist \o <<[role |-> "user", content |-> content]>>]

\* history + messages (lines 106-109): a new list holding the history's message
\* objects and the new message; history is self.history after the statement
full_messages(hist, content) ==
    [list |-> hist \o <<[role |-> "user", content |-> content]>>, history |-> hist]

\* the returned pair, and self.history after the call
parse_user_input(line, hist) ==
    IF is_exit(line) THEN [messages |-> <<>>, continue_flag |-> FALSE, history |-> hist]
    ELSE LET full == full_messages(hist, build_content(line)) IN
         [messages |-> full.list, continue_flag |-> TRUE, history |-> full.history]

-----------------------------------------------------------------------------
(* The model handlers: BaseModelHandler, MistralHandler ("text"),           *)
(* SmolVLMHandler ("vision")                                                *)

Kinds == {"text", "vision"}

\* BaseModelHandler.__init__: model and processor start as None.  loads counts
\* the times the backend was asked to load for this object (load_model asks it
\* as its first statement); the objects of the n-th load are n.
new_handler(kind) ==
    [kind |-> kind, model |-> 0, processor |-> 0, tokenizer |-> 0, loads |-> 0]

no_handler == [kind |-> "none", model |-> 0, processor |-> 0, tokenizer |-> 0, loads |-> 0]

\* what the backend does with one load_model call: the first from_pretrained
\* (tokenizer or processor) raises, the second (the model) raises, or both return
LoadOutcomes == {"ok", "fail_first", "fail_model"}

\* load_model's body, run unconditionally
load_model_body(h, outcome) ==
    LET n == h.loads + 1
        h1 == [h EXCEPT !.loads = n]
    IN  IF outcome = "fail_first" THEN [h |-> h1, raised |-> TRUE]
        ELSE IF h.kind = "text" THEN
            IF outcome = "fail_model"
            THEN [h |-> [h1 EXCEPT !.tokenizer = n], raised |-> TRUE]
            ELSE [h |-> [h1 EXCEPT !.tokenizer = n, !.model = n, !.processor = n],
                  raised |-> FALSE]
        ELSE
            IF outcome = "fail_model"
            THEN [h |-> [h1 EXCEPT !.processor = n], raised |-> TRUE]
            ELSE [h |-> [h1 EXCEPT !.processor = n, !.model = n], raised |-> FALSE]

\* load_model with a guard in front: return at once when self.model is set
load_model_guarded(h, outcome) ==
    IF h.model # 0 THEN [h |-> h, raised |-> FALSE] ELSE load_model_body(h, outcome)

\* MistralHandler.load_model / SmolVLMHandler.load_model: no check of self.model
load_model(h, outcome) == load_model_body(h, outcome)

\* generate without the check of self.model: it loads on every call
needs_load_always(h) == TRUE

\* generate's first statement: if self.model is None
needs_load(h) == h.model = 0

\* an item SmolVLMHandler.process_messages hands to the media loader
is_image_ref(item) == item.type = "image" /\ "url" \in DOMAIN item
is_video_ref(item) == item.type = "video" /\ "path" \in DOMAIN item
locator(item) == IF is_image_ref(item) THEN item.url ELSE item.path

\* the rewrite without the pop: the loaded media stored beside the locator
rewritten_keeping_locator(item) ==
    IF is_image_ref(item) THEN [type |-> "image", url |-> item.url, image |-> item.url]
    ELSE [type |-> "video", path |-> item.path, frames |-> item.path]

\* the item after the rewrite: the loaded media stored, the locator popped.
\* The loaded object is named by the locator it was decoded from.
rewritten(item) ==
    IF is_image_ref(item) THEN [type |-> "image", image |-> item.url]
    ELSE [type |-> "video", frames |-> item.path]

\* the inner loop with a loader failure swallowed: the item that cannot be
\* resolved is left as it is and the loop goes on
RECURSIVE process_content_skip(_, _, _)
process_content_skip(content, j, ok) ==
    IF j > Len(content) THEN [content |-> content, stopped |-> FALSE, loaded |-> <<>>]
    ELSE IF is_image_ref(content[j]) \/ is_video_ref(content[j]) THEN
        LET rest == process_content_skip(
                        IF locator(content[j]) \in ok
                        THEN [content EXCEPT ![j] = rewritten(content[j])] ELSE content,
                        j + 1, ok)
        IN  [rest EXCEPT !.loaded = <<[item |-> j, locator |-> locator(content[j])]>> \o @]
    ELSE process_content_skip(content, j + 1, ok)

\* the inner loop of process_messages over one message's content, from item j;
\* ok is the set of locators the media loader can resolve during this call
RECURSIVE process_content(_, _, _)
process_content(content, j, ok) ==
    IF j > Len(content) THEN [content |-> content, stopped |-> FALSE, loaded |-> <<>>]
    ELSE IF is_image_ref(content[j]) \/ is_video_ref(content[j]) THEN
        LET call == [item |-> j, locator |-> locator(content[j])] IN
        IF locator(content[j]) \in ok
        THEN LET rest == process_content([content EXCEPT ![j] = rewritten(content[j])],
                                         j + 1, ok)
             IN  [rest EXCEPT !.loaded = <<call>> \o @]
        ELSE [content |-> content, stopped |-> TRUE, loaded |-> <<call>>]
    ELSE process_content(content, j + 1, ok)

\* SmolVLMHandler.process_messages, the loop over messages from message i: the
\* message objects are rewritten in place, up to the first locator that is not ok
RECURSIVE process_messages(_, _, _)
process_messages(msgs, i, ok) ==
    IF i > Len(msgs) THEN [msgs |-> msgs, stopped |-> FALSE, loaded |-> <<>>]
    ELSE LET r == process_content(msgs[i].content, 1, ok)
             m1 == [msgs EXCEPT ![i].content = r.content]
             here == [k \in 1..Len(r.loaded) |->
                        [message |-> i, item |-> r.loaded[k].item,
                         locator |-> r.loaded[k].locator]]
         IN  IF r.stopped THEN [msgs |-> m1, stopped |-> TRUE, loaded |-> here]
             ELSE LET rest == process_messages(m1, i + 1, ok)
                  IN  [rest EXCEPT !.loaded = here \o @]

\* the locators a process_messages call would ask the media loader for
RECURSIVE content_refs(_)
content_refs(content) ==
    IF content = <<>> THEN {}
    ELSE (IF is_image_ref(Head(content)) \/ is_video_ref(Head(content))
          THEN {locator(Head(content))} ELSE {}) \cup content_refs(Tail(content))

RECURSIVE unresolved(_)
unresolved(msgs) ==
    IF msgs = <<>> THEN {} ELSE content_refs(Head(msgs).content) \cup unresolved(Tail(msgs))

Responses == {<<>>, <<W("ok")>>}

\* what the world does during one generate call: the backend's answer to a
\* load, the locators the media loader resolves, how a stop at an unresolved
\* locator ends (the loader raises, or the user interrupts while it runs), and
\* the backend's part (apply_chat_template raises; model.generate returns resp,
\* raises, or is interrupted)
Envs(msgs) ==
    [load : LoadOutcomes, ok : SUBSET unresolved(msgs), stop : {"error", "interrupt"},
     backend : {"ok", "fail_template", "fail", "interrupt"}, resp : Responses]

\* MistralHandler.generate / SmolVLMHandler.generate.  events are the calls
\* made, in order; msgs is the caller's list after the call; loader_calls are
\* the load_image and load_video calls made, in order.
generate(h, msgs, env) ==
    LET ld == IF needs_load(h) THEN load_model(h, env.load) ELSE [h |-> h, raised |-> FALSE]
        ev1 == <<"generate">> \o (IF needs_load(h) THEN <<"load_model">> ELSE <<>>)
        pm == IF h.kind = "vision" THEN process_messages(msgs, 1, env.ok)
              ELSE [msgs |-> msgs, stopped |-> FALSE, loaded |-> <<>>]
    IN  IF ld.raised THEN
            [h |-> ld.h, msgs |-> msgs, result |-> "error", response |-> <<>>, events |-> ev1,
             loader_calls |-> <<>>]
        ELSE IF pm.stopped THEN
            [h |-> ld.h, msgs |-> pm.msgs, result |-> env.stop, response |-> <<>>,
             events |-> ev1, loader_calls |-> pm.loaded]
        ELSE IF env.backend = "fail_template" THEN
            [h |-> ld.h, msgs |-> pm.msgs, result |-> "error", response |-> <<>>,
             events |-> ev1, loader_calls |-> pm.loaded]
        ELSE
            [h |-> ld.h, msgs |-> pm.msgs,
             result |-> IF env.backend = "ok" THEN "ok"
                        ELSE IF env.backend = "fail" THEN "error" ELSE "interrupt",
             response |-> IF env.backend = "ok" THEN env.resp ELSE <<>>,
             events |-> ev1 \o <<"model.generate">>, loader_calls |-> pm.loaded]

-----------------------------------------------------------------------------
(* The terminal session: QllamaTerminal.__init__ and QllamaTerminal.run     *)

PathJpg == P("a", ".jpg")
PathPng == P("b", ".PNG")
PathMp4 == P("c", ".mp4")
PathWebp == P("d", ".webp")

\* the lines the user types in a session
SessionLines ==
    { <<>>, <<Sp>>,
      <<W("Exit")>>, <<Sp, W("/Quit"), Sp>>, <<W("QUIT"), Sp>>, <<Sp, W("/exit")>>,
      <<W("hi")>>,
      <<M("image", PathJpg), Sp, W("hi")>>,
      <<M("video", PathMp4)>> }

assistant_message(resp) ==
    [role |-> "assistant", content |-> <<[type |-> "text", text |-> resp]>>]

\* lines 159-164 with the two appends in the other order
update_history_swapped(hist, msgs, resp) == hist \o <<assistant_message(resp), msgs[Len(msgs)]>>

\* lines 159-164 with the first append left out
update_history_response_only(hist, msgs, resp) == hist \o <<assistant_message(resp)>>

\* lines 159-164: the two appends
update_history(hist, msgs, resp) == hist \o <<msgs[Len(msgs)], assistant_message(resp)>>

\* the user message appended before generate is called, and left there when it raises
turn_history_user_first(hist, g) ==
    IF g.result = "ok" THEN update_history(hist, g.msgs, g.response)
    ELSE IF g.result = "error" THEN Append(hist, g.msgs[Len(g.msgs)])
    ELSE hist

\* lines 149-170: self.history after the try statement; hist holds the history's
\* message objects as generate left them, g is what generate did
turn_history(hist, g) ==
    IF g.result = "ok" THEN update_history(hist, g.msgs, g.response) ELSE hist

\* no except Exception clause: an error leaves the loop
next_pc_error_ends(result) == IF result = "error" THEN "done" ELSE "input"

\* the loop without the check of lines 135-136
is_empty_input_never(line) == FALSE

\* line 135: not user_input.strip()
is_empty_input(line) == strip(line) = <<>>

\* no except KeyboardInterrupt clause: the interrupt leaves the loop
next_pc_interrupt_ends(result) == IF result = "interrupt" THEN "done" ELSE "input"

\* lines 130, 166-170: after the update or either except branch, the loop goes on
next_pc(result) == "input"

\* get_model_handler as __init__ sees it: a handler of one kind, or an error
Resolutions == Kinds \cup {"error"}

\* QllamaTerminal.__init__, lines 39-56: resolve the handler, load the model,
\* sys.exit(1) when either raises
TerminalInit ==
    /\ pc = "init"
    /\ \E kind \in Resolutions, outcome \in LoadOutcomes :
         IF kind = "error" THEN
             /\ pc' = "exit1"
             /\ UNCHANGED handler
         ELSE
             LET ld == load_model(new_handler(kind), outcome) IN
             /\ handler' = ld.h
             /\ pc' = IF ld.raised THEN "exit1" ELSE "input"
    /\ UNCHANGED <<history, hist0, user_input, messages, response, last, parsed, calls, resolution, media,
                   loader_calls>>

\* run(), lines 132-147: input(), write_history_file, the empty check,
\* parse_user_input, the exit check.  input() raises EOFError or is interrupted
\* (first disjunct), or returns a line; the write of the log then raises, or
\* returns and the line is looked at.
ReadInput ==
    /\ pc = "input"
    /\ hist0' = history
    /\ \/ /\ last' \in {"error_input", "interrupt_input"}
          /\ UNCHANGED <<pc, user_input, messages, history>>
       \/ \E line \in SessionLines :
            /\ user_input' = line
            /\ \/ /\ last' = "error_log"
                  /\ UNCHANGED <<pc, messages, history>>
               \/ IF is_empty_input(line) THEN
                      /\ last' = "empty"
                      /\ UNCHANGED <<pc, messages, history>>
                  ELSE
                      LET r == parse_user_input(line, history) IN
                      /\ messages' = r.messages
                      /\ history' = r.history
                      /\ IF ~r.continue_flag THEN
                             /\ last' = "goodbye"
                             /\ pc' = "done"
                         ELSE IF r.messages = <<>> THEN
                             /\ last' = "empty"
                             /\ pc' = "input"
                         ELSE
                             /\ last' = "prompt"
                             /\ pc' = "generate"
    /\ loader_calls' = <<>>
    /\ UNCHANGED <<handler, response, parsed, calls, resolution, media>>

\* run(), lines 149-170: generate, then the history update, or one of the two
\* except branches.  The list given to generate holds the history's own message
\* objects followed by the new message, so what the handler rewrites in the
\* list's first Len(history) messages it rewrites in the history.
\* A KeyboardInterrupt is taken where the loop blocks: in input() (ReadInput)
\* and in generate(), while the media loader or the backend runs.
Generate ==
    /\ pc = "generate"
    /\ \E env \in Envs(messages) :
         LET g == generate(handler, messages, env)
             hist1 == SubSeq(g.msgs, 1, Len(history))
         IN  /\ g.result = "ok" => Len(history) < 2 * MaxTurns
             /\ handler' = g.h
             /\ messages' = g.msgs
             /\ response' = (IF g.result = "ok" THEN g.response ELSE response)
             /\ history' = turn_history(hist1, g)
             /\ last' = (IF g.result = "ok" THEN "response"
                         ELSE IF g.result = "interrupt" THEN "interrupt_generate"
                         ELSE "error_generate")
             /\ pc' = next_pc(g.result)
             /\ loader_calls' = g.loader_calls
    /\ UNCHANGED <<hist0, user_input, parsed, calls, resolution, media>>

Init ==
    /\ pc = "init"
    /\ handler = no_handler
    /\ history = <<>>
    /\ hist0 = <<>>
    /\ user_input = <<>>
    /\ messages = <<>>
    /\ response = <<>>
    /\ last = "start"
    /\ parsed = [called |-> FALSE, messages |-> <<>>, continue_flag |-> FALSE]
    /\ calls = <<>>
    /\ resolution = no_resolution
    /\ media = no_media
    /\ loader_calls = <<>>

Next == TerminalInit \/ ReadInput \/ Generate

Spec == Init /\ [][Next]_vars

-----------------------------------------------------------------------------
(* parse_user_input called on any line, with a history of N completed turns *)

Paths == {PathJpg, PathPng, PathMp4, PathWebp}
Tags == {"image", "video"}
Lexemes == {Sp, W("hi"), W("Exit"), W("/quit")} \cup {M(tag, p) : tag \in Tags, p \in Paths}
Lines == UNION {[1..k -> Lexemes] : k \in 0..MaxInputLen}

\* the history a session leaves after n completed turns of the text handler
RECURSIVE sample_history(_)
sample_history(n) ==
    IF n = 0 THEN <<>>
    ELSE LET line == IF n % 2 = 1 THEN <<M("image", PathJpg), Sp, W("hi")>> ELSE <<W("hi")>>
             r == parse_user_input(line, sample_history(n - 1))
         IN  update_history(r.history, r.messages, <<W("ok")>>)

ParseInit ==
    /\ pc = "parse"
    /\ handler = no_handler
    /\ history \in {sample_history(n) : n \in 0..MaxTurns}
    /\ hist0 = history
    /\ user_input \in Lines
    /\ messages = <<>>
    /\ response = <<>>
    /\ last = "start"
    /\ parsed = [called |-> FALSE, messages |-> <<>>, continue_flag |-> FALSE]
    /\ calls = <<>>
    /\ resolution = no_resolution
    /\ media = no_media
    /\ loader_calls = <<>>

ParseCall ==
    /\ pc = "parse"
    /\ LET r == parse_user_input(user_input, history) IN
       /\ parsed' = [called |-> TRUE, messages |-> r.messages,
                     continue_flag |-> r.continue_flag]
       /\ history' = r.history
    /\ pc' = "parsed"
    /\ UNCHANGED <<handler, hist0, user_input, messages, response, last, calls, resolution, media,
                   loader_calls>>

ParseNext == ParseCall

ParseSpec == ParseInit /\ [][ParseNext]_vars

-----------------------------------------------------------------------------
(* A handler used through its API: load_model() and generate(messages)      *)

\* the message lists a caller gives to generate
ApiMessages ==
    { parse_user_input(line, <<>>).messages :
        line \in { <<W("hi")>>, <<M("image", PathJpg), M("video", PathMp4), W("hi")>> } }

ApiInit ==
    /\ pc = "api"
    /\ handler \in {new_handler(kind) : kind \in Kinds}
    /\ history = <<>>
    /\ hist0 = <<>>
    /\ user_input = <<>>
    /\ messages = <<>>
    /\ response = <<>>
    /\ last = "start"
    /\ parsed = [called |-> FALSE, messages |-> <<>>, continue_flag |-> FALSE]
    /\ calls = <<>>
    /\ resolution = no_resolution
    /\ media = no_media
    /\ loader_calls = <<>>

ApiLoadModel ==
    /\ pc = "api"
    /\ Len(calls) < MaxCalls
    /\ \E outcome \in LoadOutcomes :
         LET ld == load_model(handler, outcome) IN
         /\ handler' = ld.h
         /\ last' = (IF ld.raised THEN "load_model_raised" ELSE "load_model_returned")
    /\ calls' = Append(calls, "load_model")
    /\ UNCHANGED <<pc, history, hist0, user_input, messages, response, parsed, resolution, media,
                   loader_calls>>

ApiGenerate ==
    /\ pc = "api"
    /\ Len(calls) < MaxCalls
    /\ \E msgs \in ApiMessages :
         \E env \in Envs(msgs) :
           LET g == generate(handler, msgs, env) IN
           /\ handler' = g.h
           /\ messages' = g.msgs
           /\ response' = (IF g.result = "ok" THEN g.response ELSE response)
           /\ calls' = calls \o g.events
           /\ loader_calls' = g.loader_calls
           /\ last' = (IF g.result = "ok" THEN "generate_returned"
                       ELSE IF g.result = "error" THEN "generate_raised"
                       ELSE "generate_interrupted")
    /\ UNCHANGED <<pc, history, hist0, user_input, parsed, resolution, media>>

ApiNext == ApiLoadModel \/ ApiGenerate

ApiSpec == ApiInit /\ [][ApiNext]_vars

-----------------------------------------------------------------------------
(* The handler registry: get_model_handler.  A model name is a sequence of  *)
(* characters.                                                              *)

MaxNameParts == 3

\* str.lower on one character
lower_char(c) ==
    CASE c = "S" -> "s" [] c = "M" -> "m" [] c = "O" -> "o" [] c = "L" -> "l"
      [] c = "V" -> "v" [] c = "B" -> "b" [] c = "I" -> "i" [] c = "T" -> "t"
      [] c = "R" -> "r" [] c = "A" -> "a" [] OTHER -> c

\* str.lower
lower_chars(name) == [i \in 1..Len(name) |-> lower_char(name[i])]

\* str.replace(c, "")
RECURSIVE remove_char(_, _)
remove_char(name, c) ==
    IF name = <<>> THEN <<>>
    ELSE (IF Head(name) = c THEN <<>> ELSE <<Head(name)>>) \o remove_char(Tail(name), c)

Key_smolvlm2 == <<"s", "m", "o", "l", "v", "l", "m", "2">>
Key_mistral == <<"m", "i", "s", "t", "r", "a", "l">>

MODEL_REGISTRY ==
    (Key_smolvlm2 :> "qllama.models.vision.smolvlm.SmolVLMHandler")
        @@ (Key_mistral :> "qllama.models.text.mistral.MistralHandler")

\* the key computed with only the hyphens removed
model_key_hyphens_only(model_name) == remove_char(lower_chars(model_name), "-")

\* line 27: model_name.lower().replace("-", "").replace("_", "")
model_key(model_name) == remove_char(remove_char(lower_chars(model_name), "-"), "_")

\* what import_module, getattr and the handler's constructor do for a registered
\* path: they return the handler, or one of them raises an exception of a class
ImportOutcomes == {"ok", "ImportError", "AttributeError", "RuntimeError", "ValueError"}

\* get_model_handler: class is the class of the handler returned or of the
\* exception raised; listed are the names the ValueError message gives;
\* imported says whether import_module was called
get_model_handler(model_name, env) ==
    IF model_key(model_name) \notin DOMAIN MODEL_REGISTRY THEN
        [name |-> model_name, state |-> "raised", class |-> "ValueError",
         listed |-> DOMAIN MODEL_REGISTRY, imported |-> FALSE, constructed |-> FALSE]
    ELSE IF env = "ok" THEN
        [name |-> model_name, state |-> "returned",
         class |-> MODEL_REGISTRY[model_key(model_name)],
         listed |-> {}, imported |-> TRUE, constructed |-> TRUE]
    ELSE IF env \in {"ImportError", "AttributeError"} THEN
        [name |-> model_name, state |-> "raised", class |-> "ImportError",
         listed |-> {}, imported |-> TRUE, constructed |-> FALSE]
    ELSE
        [name |-> model_name, state |-> "raised", class |-> env,
         listed |-> {}, imported |-> TRUE, constructed |-> FALSE]

\* the pieces the names given to get_model_handler are made of
NameParts ==
    { <<"s", "m", "o", "l">>, <<"S", "m", "o", "l">>, <<"S", "M", "O", "L">>,
      <<"v", "l", "m", "2">>, <<"V", "L", "M", "2">>, <<"-">>, <<"_">>,
      <<"-", "2", ".", "2", "B">>, Key_mistral }

RECURSIVE NamesOf(_)
NamesOf(n) ==
    IF n = 0 THEN {<<>>}
    ELSE LET shorter == NamesOf(n - 1)
         IN  shorter \cup {x \o part : x \in shorter, part \in NameParts}

Names == NamesOf(MaxNameParts)

RegistryInit ==
    /\ pc = "resolve"
    /\ handler = no_handler
    /\ history = <<>>
    /\ hist0 = <<>>
    /\ user_input = <<>>
    /\ messages = <<>>
    /\ response = <<>>
    /\ last = "start"
    /\ parsed = [called |-> FALSE, messages |-> <<>>, continue_flag |-> FALSE]
    /\ calls = <<>>
    /\ resolution \in {[no_resolution EXCEPT !.name = n] : n \in Names}
    /\ media = no_media
    /\ loader_calls = <<>>

\* one call get_model_handler(name)
ResolveHandler ==
    /\ pc = "resolve"
    /\ \E env \in ImportOutcomes : resolution' = get_model_handler(resolution.name, env)
    /\ pc' = "resolved"
    /\ UNCHANGED <<handler, history, hist0, user_input, messages, response, last, parsed,
                   calls, media, loader_calls>>

RegistryNext == ResolveHandler

RegistrySpec == RegistryInit /\ [][RegistryNext]_vars

-----------------------------------------------------------------------------
(* The media loader: load_image *)

MaxImageCalls == 3

\* a locator as urlparse splits it
UrlJpg == [scheme |-> "https", netloc |-> "host", path |-> PathJpg]
FileUrlJpg == [scheme |-> "file", netloc |-> "", path |-> PathJpg]
LocalJpg == [scheme |-> "", netloc |-> "", path |-> PathJpg]
ImageLocators == {UrlJpg, FileUrlJpg, LocalJpg}

is_url(path_or_url) == path_or_url.scheme # "" /\ path_or_url.netloc # ""

\* what the network, the file system and the decoder do during one call:
\* requests.get raises, raise_for_status raises, a write of the download
\* raises, os.path.isfile is false, Image.open raises
ImageEnvs ==
    [net : {"ok", "get_fails", "status_fails", "write_fails"},
     isfile : BOOLEAN, decode : {"ok", "fails"}]

\* load_image: result is "image" when it returns and "raised" when it raises,
\* stage is the statement it ended in, tmp the number of temporary files on
\* disk after the call (tmp0 before it)
load_image(path_or_url, env, tmp0) ==
    IF is_url(path_or_url) THEN
        IF env.net = "get_fails" THEN [result |-> "raised", stage |-> "get", tmp |-> tmp0]
        ELSE IF env.net = "status_fails" THEN
            [result |-> "raised", stage |-> "raise_for_status", tmp |-> tmp0]
        ELSE IF env.net = "write_fails" THEN
            [result |-> "raised", stage |-> "write", tmp |-> tmp0 + 1]
        ELSE IF env.decode = "fails" THEN
            [result |-> "raised", stage |-> "open", tmp |-> tmp0 + 1]
        ELSE [result |-> "image", stage |-> "return", tmp |-> (tmp0 + 1) - 1]
    ELSE
        IF ~env.isfile THEN [result |-> "raised", stage |-> "isfile", tmp |-> tmp0]
        ELSE IF env.decode = "fails" THEN [result |-> "raised", stage |-> "open", tmp |-> tmp0]
        ELSE [result |-> "image", stage |-> "return", tmp |-> tmp0]

ImageInit ==
    /\ pc = "media"
    /\ handler = no_handler
    /\ history = <<>>
    /\ hist0 = <<>>
    /\ user_input = <<>>
    /\ messages = <<>>
    /\ response = <<>>
    /\ last = "start"
    /\ parsed = [called |-> FALSE, messages |-> <<>>, continue_flag |-> FALSE]
    /\ calls = <<>>
    /\ resolution = no_resolution
    /\ media = no_media
    /\ loader_calls = <<>>

\* one call load_image(locator)
LoadImage ==
    /\ pc = "media"
    /\ Len(media.results) < MaxImageCalls
    /\ \E loc \in ImageLocators :
         \E env \in ImageEnvs :
           LET r == load_image(loc, env, media.tmp) IN
           media' = [results |-> Append(media.results,
                                        [locator |-> loc, result |-> r.result,
                                         stage |-> r.stage]),
                     tmp |-> r.tmp]
    /\ UNCHANGED <<pc, handler, history, hist0, user_input, messages, response, last, parsed,
                   calls, resolution, loader_calls>>

ImageNext == LoadImage

ImageSpec == ImageInit /\ [][ImageNext]_vars

-----------------------------------------------------------------------------
(* Properties of the session loop, checked under Spec *)

IsText(item) == item.type = "text"
IsAttachment(item) == item.type \in {"image", "video"}

\* item b is item a, or a with its locator replaced by the media loaded from it
SameItem(a, b) ==
    \/ b = a
    \/ /\ a.type = "image" /\ "url" \in DOMAIN a
       /\ b = [type |-> "image", image |-> a.url]
    \/ /\ a.type = "video" /\ "path" \in DOMAIN a
       /\ b = [type |-> "video", frames |-> a.path]

\* C1: a turn whose generate call returned leaves the history as it was when
\* the turn began, followed by the user message that was sent (the last element
\* of the list given to generate, built from the line read) and by a new
\* assistant message whose content is one text item holding the response.
C1_SuccessfulTurnAppendsPair ==
    last = "response" =>
        LET n == Len(hist0)
            sent == build_content(user_input)
        IN  /\ Len(history) = n + 2
            /\ SubSeq(history, 1, n) = hist0
            /\ Len(messages) = n + 1
            /\ history[n + 1] = messages[n + 1]
            /\ history[n + 1].role = "user"
            /\ Len(history[n + 1].content) = Len(sent)
            /\ \A j \in 1..Len(sent) : SameItem(sent[j], history[n + 1].content[j])
            /\ history[n + 2] =
                 [role |-> "assistant", content |-> <<[type |-> "text", text |-> response]>>]

\* a second successful turn of a vision session, its image resolved
C1_Witness ==
    /\ last = "response"
    /\ Len(hist0) = 2
    /\ handler.kind = "vision"
    /\ user_input = <<M("image", PathJpg), Sp, W("hi")>>
    /\ history[3].content[1] = [type |-> "image", image |-> PathJpg]

\* C2: when generate raises (the media loader or the backend failed), the
\* history is exactly the history the turn began with, and the loop is back at
\* the prompt.
C2_FailedTurnLeavesHistory ==
    last = "error_generate" => (history = hist0 /\ pc = "input")

\* a failed turn on a non-empty history, one of whose attachments was not resolved
C2_Witness ==
    /\ last = "error_generate"
    /\ Len(hist0) = 2
    /\ handler.kind = "vision"
    /\ unresolved(messages) # {}

\* C3: whenever the loop waits for input, the history has even length and its
\* roles alternate user, assistant, user, assistant, ...
C3_HistoryAlternates ==
    pc = "input" =>
        /\ Len(history) % 2 = 0
        /\ \A i \in 1..Len(history) :
             history[i].role = (IF i % 2 = 1 THEN "user" ELSE "assistant")

\* the prompt after two completed turns and then an abandoned one
C3_Witness ==
    /\ pc = "input"
    /\ Len(history) = 4
    /\ last \in {"error_generate", "interrupt_generate"}

\* C4: a KeyboardInterrupt that arrives while generate runs ends the turn with
\* the history as the turn found it and the loop back at the prompt: neither
\* the loop nor the process ends.
C4_InterruptAbandonsTurn ==
    last = "interrupt_generate" => (history = hist0 /\ pc = "input")

\* an interrupted turn on a non-empty history
C4_Witness ==
    /\ last = "interrupt_generate"
    /\ Len(hist0) = 2
    /\ pc = "input"

SessionExitLines ==
    {<<W("Exit")>>, <<Sp, W("/Quit"), Sp>>, <<W("QUIT"), Sp>>, <<Sp, W("/exit")>>}

\* C8: when the line read is an exit command (ignoring case and surrounding
\* blanks) and the loop gets to parse it, parse_user_input returns no messages
\* and the loop ends at once: generate is not called, the history is unchanged.
C8_ExitEndsLoop ==
    (user_input \in SessionExitLines /\ last \notin {"error_log", "error_input", "interrupt_input"})
        => /\ pc = "done"
           /\ last = "goodbye"
           /\ messages = <<>>
           /\ history = hist0

\* the session ended by " /Quit " after a completed turn
C8_Witness ==
    /\ pc = "done"
    /\ user_input = <<Sp, W("/Quit"), Sp>>
    /\ Len(history) = 2

-----------------------------------------------------------------------------
(* Properties of parse_user_input, checked under ParseSpec *)

\* the lines that are an exit command once trimmed and lower-cased
RECURSIVE Blanks(_)
Blanks(s) == s = <<>> \/ (Head(s) = Sp /\ Blanks(Tail(s)))

ExitWords == {"exit", "Exit", "EXIT", "quit", "QUIT", "/exit", "/quit", "/Quit"}

IsExitLine(line) ==
    \E i \in 1..Len(line) :
        /\ line[i].k = "w" /\ line[i].s \in ExitWords
        /\ Blanks(SubSeq(line, 1, i - 1))
        /\ Blanks(SubSeq(line, i + 1, Len(line)))

\* the content of the user message a call returned
ParsedContent == parsed.messages[Len(parsed.messages)].content

\* the markers of a line, in order of appearance
MarkersOf(line) == SelectSeq(line, IsMarker)

ItemLocator(item) == IF item.type = "image" THEN item.url ELSE item.path

\* C5: for a history of N completed turns and a line that is no exit command,
\* parse_user_input returns 2N+1 messages: the history's messages in order,
\* then one user message holding the content items built from the line; the
\* history itself is as it was.
C5_FullListIsHistoryPlusOne ==
    (parsed.called /\ ~IsExitLine(user_input)) =>
        LET n == Len(hist0) IN
        /\ n % 2 = 0
        /\ parsed.continue_flag
        /\ Len(parsed.messages) = n + 1
        /\ SubSeq(parsed.messages, 1, n) = hist0
        /\ parsed.messages[n + 1].role = "user"
        /\ ParsedContent = build_content(user_input)
        /\ history = hist0

\* a line with a marker parsed on a history of two turns
C5_Witness ==
    /\ parsed.called
    /\ Len(hist0) = 4
    /\ Len(parsed.messages) = 5
    /\ user_input = <<M("video", PathMp4), Sp, W("hi")>>

\* C6: every marker of the line is removed from the text and emitted as one
\* attachment item, the attachment items are in the order of the markers, and
\* they all come before the one text item, if there is text left.
C6_EveryMarkerExtracted ==
    (parsed.called /\ parsed.continue_flag) =>
        LET atts == SelectSeq(ParsedContent, IsAttachment)
            texts == SelectSeq(ParsedContent, IsText)
            marks == MarkersOf(user_input)
        IN  /\ Len(atts) = Len(marks)
            /\ \A i \in 1..Len(atts) : ItemLocator(atts[i]) = marks[i].path
            /\ Len(texts) <= 1
            /\ ParsedContent = atts \o texts
            /\ \A i \in 1..Len(texts) : MarkersOf(texts[i].text) = <<>>

\* C7: an attachment item's type is the tag written in the marker it comes
\* from: an image item comes from an <image:X> marker, a video item from a
\* <video:X> marker, whatever the extension of X.
C7_ClassifiedByTag ==
    (parsed.called /\ parsed.continue_flag) =>
        \A i \in 1..Len(ParsedContent) :
            IsAttachment(ParsedContent[i]) =>
                \E j \in 1..Len(user_input) :
                    user_input[j] = M(ParsedContent[i].type, ItemLocator(ParsedContent[i]))

-----------------------------------------------------------------------------
(* Properties of the handlers, checked under ApiSpec *)

\* the entries a step adds to the call log
NewCalls == SubSeq(calls', Len(calls) + 1, Len(calls'))

\* the step is a generate call, or a load_model call made by the caller
GenerateStep == Len(calls') > Len(calls) /\ NewCalls[1] = "generate"
LoadModelStep == Len(calls') > Len(calls) /\ NewCalls[1] = "load_model"

Count(s, x) == Cardinality({i \in 1..Len(s) : s[i] = x})

\* C9: a generate call on an unloaded handler calls load_model exactly once,
\* before the backend generates, and the backend generates only with a model
\* loaded; a generate call on a loaded handler does not call load_model and
\* keeps the model; a loaded handler never becomes unloaded again.
C9_AutoLoadOnce ==
    /\ [][GenerateStep =>
            /\ handler.model = 0 =>
                 /\ Len(NewCalls) >= 2
                 /\ NewCalls[2] = "load_model"
                 /\ Count(NewCalls, "load_model") = 1
                 /\ handler'.loads = handler.loads + 1
            /\ handler.model # 0 =>
                 /\ Count(NewCalls, "load_model") = 0
                 /\ handler'.loads = handler.loads
                 /\ handler'.model = handler.model
            /\ Count(NewCalls, "model.generate") > 0 =>
                 /\ handler'.model # 0
                 /\ NewCalls[Len(NewCalls)] = "model.generate"
                 /\ Count(NewCalls, "model.generate") = 1]_vars
    /\ [][handler.model # 0 => handler'.model # 0]_vars

\* two generate calls on a new handler: the first loads, the second does not
C9_Witness ==
    /\ calls = <<"generate", "load_model", "model.generate", "generate", "model.generate">>
    /\ handler.loads = 1
    /\ handler.model = 1

\* C10 as claimed: load_model called on a loaded handler does not ask the
\* backend to load and leaves the model and processor references as they are.
C10_LoadOnLoadedIsNoOp ==
    [][(LoadModelStep /\ handler.model # 0) =>
          /\ handler'.loads = handler.loads
          /\ handler'.model = handler.model
          /\ handler'.processor = handler.processor]_vars

\* C10 as amended: only generate checks whether the model is loaded.  On a
\* loaded handler generate asks for no load and keeps the model and processor
\* references; load_model asks the backend to load again and, when the load
\* returns, the model and processor are the newly loaded objects.
C10_OnlyGenerateGuardsLoad ==
    /\ [][(GenerateStep /\ handler.model # 0) =>
            /\ handler'.loads = handler.loads
            /\ handler'.model = handler.model
            /\ handler'.processor = handler.processor]_vars
    /\ [][(LoadModelStep /\ handler.model # 0) =>
            /\ handler'.loads = handler.loads + 1
            /\ last' = "load_model_returned" =>
                 /\ handler'.model = handler'.loads
                 /\ handler'.processor = handler'.loads
                 /\ handler'.model # handler.model
                 /\ handler'.processor # handler.processor]_vars

\* load_model called twice, both loads returning
C10_Witness ==
    /\ calls = <<"load_model", "load_model">>
    /\ last = "load_model_returned"
    /\ handler.model = 2
    /\ handler.processor = 2

\* C11: a failed load is fatal to the handler instance.  A load that fails
\* is raised to the caller (of load_model, or of the generate call that
\* auto-loads), and on a handler whose load has failed no later generate call
\* asks the backend to load again.
C11_FailedLoadIsFatal ==
    /\ [][(LoadModelStep /\ handler'.model = 0) => last' = "load_model_raised"]_vars
    /\ [][(GenerateStep /\ Count(NewCalls, "load_model") > 0 /\ handler'.model = 0) =>
            last' = "generate_raised"]_vars
    /\ [][(GenerateStep /\ handler.loads > 0 /\ handler.model = 0) =>
            /\ Count(NewCalls, "load_model") = 0
            /\ handler'.loads = handler.loads]_vars

\* C12: a generate call of the vision handler that leaves some attachment of
\* some message unresolved does not return and never reaches the backend's
\* generate, whether or not other attachments of that call were resolved.
C12_NoGenerationWithUnresolvedMedia ==
    [][(GenerateStep /\ handler.kind = "vision" /\ unresolved(messages') # {}) =>
          /\ Count(NewCalls, "model.generate") = 0
          /\ last' \in {"generate_raised", "generate_interrupted"}]_vars

\* the image of a message was resolved, its video was not, and generate raised
\* with the model loaded and the backend's generate never called
C12_Witness ==
    /\ handler.kind = "vision"
    /\ handler.model # 0
    /\ last = "generate_raised"
    /\ calls = <<"generate", "load_model">>
    /\ unresolved(messages) = {PathMp4}
    /\ \E i \in 1..Len(messages) : \E j \in 1..Len(messages[i].content) :
          messages[i].content[j] = [type |-> "image", image |-> PathJpg]

-----------------------------------------------------------------------------
(* Properties of the registry, checked under RegistrySpec *)

CasePairs ==
    { <<"s", "S">>, <<"m", "M">>, <<"o", "O">>, <<"l", "L">>, <<"v", "V">>, <<"b", "B">>,
      <<"i", "I">>, <<"t", "T">>, <<"r", "R">>, <<"a", "A">> }

Separators == {"-", "_"}

\* the other case of a letter; a character that is not a letter is left alone
Flip(c) ==
    IF \E q \in CasePairs : q[1] = c THEN (CHOOSE q \in CasePairs : q[1] = c)[2]
    ELSE IF \E q \in CasePairs : q[2] = c THEN (CHOOSE q \in CasePairs : q[2] = c)[1]
    ELSE c

IsUpper(c) == \E q \in CasePairs : q[2] = c
IsLower(c) == \E q \in CasePairs : q[1] = c

UpperAll(n) == [i \in 1..Len(n) |-> IF IsLower(n[i]) THEN Flip(n[i]) ELSE n[i]]
LowerAll(n) == [i \in 1..Len(n) |-> IF IsUpper(n[i]) THEN Flip(n[i]) ELSE n[i]]
IsNoSeparator(c) == c \notin Separators
NoSeparators(n) == SelectSeq(n, IsNoSeparator)
InsertAt(n, i, c) == SubSeq(n, 1, i) \o <<c>> \o SubSeq(n, i + 1, Len(n))

\* names that differ from n only in letter case and in '-' and '_' characters
Variants(n) ==
    {UpperAll(n), LowerAll(n), NoSeparators(n), NoSeparators(LowerAll(n))}
        \cup {[n EXCEPT ![i] = Flip(n[i])] : i \in 1..Len(n)}
        \cup {InsertAt(n, i, c) : i \in 0..Len(n), c \in Separators}

Name_Smol_VLM2 == <<"S", "m", "o", "l", "-", "V", "L", "M", "2">>
Name_smolvlm2 == <<"s", "m", "o", "l", "v", "l", "m", "2">>
Name_SMOL_VLM2 == <<"S", "M", "O", "L", "_", "V", "L", "M", "2">>
Name_SmolVLM2 == <<"S", "m", "o", "l", "V", "L", "M", "2">>
Name_smol_vlm2 == <<"s", "m", "o", "l", "-", "v", "l", "m", "2">>
Name_SmolVLM2_22B == <<"S", "m", "o", "l", "V", "L", "M", "2", "-", "2", ".", "2", "B">>

SmolVLMHandler == "qllama.models.vision.smolvlm.SmolVLMHandler"

\* C13: the lookup does not see letter case, '-' or '_'.  When a name has been
\* looked up (found and its handler constructed, or not found), every name
\* that differs from it only in letter case and in '-' and '_' characters is
\* looked up to the same result: the same handler constructor, or not found.
\* Smol-VLM2, smolvlm2 and SMOL_VLM2 are found as the SmolVLM handler.
C13_LookupIgnoresCaseAndSeparators ==
    (pc = "resolved" /\ (resolution.state = "returned" \/ ~resolution.imported)) =>
        /\ \A v \in Variants(resolution.name) :
              /\ get_model_handler(v, "ok").state = resolution.state
              /\ get_model_handler(v, "ok").class = resolution.class
        /\ resolution.name \in {Name_Smol_VLM2, Name_smolvlm2, Name_SMOL_VLM2} =>
              resolution.class = SmolVLMHandler

\* Smol-VLM2 was resolved to the SmolVLM handler
C13_Witness ==
    /\ pc = "resolved"
    /\ resolution.name = Name_Smol_VLM2
    /\ resolution.state = "returned"
    /\ resolution.class = SmolVLMHandler

\* C14: each of the names smolvlm2, SmolVLM2, smol-vlm2 and SmolVLM2-2.2B is
\* found in the registry (the call gets as far as the import, it does not end
\* with the unknown-model error), and when the import and the constructor
\* return, the handler returned is the SmolVLM handler.
C14_NameFormatsResolve ==
    (pc = "resolved"
        /\ resolution.name \in {Name_smolvlm2, Name_SmolVLM2, Name_smol_vlm2, Name_SmolVLM2_22B}) =>
        /\ resolution.imported
        /\ resolution.state = "returned" => resolution.class = SmolVLMHandler

\* the name is not a registered name, whatever its case and separators
Unknown(n) == NoSeparators(LowerAll(n)) \notin {Key_smolvlm2, Key_mistral}

\* C15: an unknown name ends with a ValueError that lists the registered
\* names, with nothing imported or constructed; a known name whose import or
\* construction fails ends with an ImportError; so a ValueError always means
\* that the name is unknown.
C15_NotFoundVersusUnavailable ==
    pc = "resolved" =>
        /\ Unknown(resolution.name) =>
              /\ resolution.state = "raised"
              /\ resolution.class = "ValueError"
              /\ resolution.listed = {Key_smolvlm2, Key_mistral}
              /\ ~resolution.imported
              /\ ~resolution.constructed
        /\ (~Unknown(resolution.name) /\ resolution.state = "raised") =>
              resolution.class = "ImportError"
        /\ resolution.class = "ValueError" => Unknown(resolution.name)

-----------------------------------------------------------------------------
(* Properties of the media loader, checked under ImageSpec *)

\* C16: load_image given a URL leaves no temporary file behind, whether it
\* returns the image or raises (the decode failed, or a write of the download
\* failed): after every call there is no temporary file on disk.
C16_TempFileRemoved == media.tmp = 0

-----------------------------------------------------------------------------
(* Properties of the session's error handling, checked under Spec *)

SessionBlankLines == {<<>>, <<Sp>>}

\* C18: after a line that is empty or all blanks has been read, generate is
\* not called, the history is what it was before the line was read, and the
\* loop is at the prompt again.
C18_EmptyInputIsNoOp ==
    (user_input \in SessionBlankLines /\ last # "start") =>
        /\ pc = "input"
        /\ history = hist0
        /\ last \in {"empty", "error_log", "error_input", "interrupt_input"}

\* a blank line read after one completed turn
C18_Witness ==
    /\ user_input = <<Sp>>
    /\ last = "empty"
    /\ pc = "input"
    /\ Len(history) = 2

\* C19: a failure of the write of the input log does not end the turn: when
\* the write fails after a line that is neither blank nor an exit command has
\* been read, the line is still parsed and the loop goes on to generate.
C19_LogWriteIsBestEffort ==
    (last = "error_log" /\ user_input \notin (SessionBlankLines \cup SessionExitLines)) =>
        /\ pc = "generate"
        /\ Len(messages) = Len(history) + 1

-----------------------------------------------------------------------------
(* Properties of the messages built, checked under ParseSpec *)

NonEmptyContent(msg) == msg.content # <<>>

OneTextItem(msg) == Len(msg.content) = 1 /\ IsText(msg.content[1])

\* C20: no message has an empty content.  For every line that is not all
\* blanks and not an exit command, parse_user_input returns a list whose last
\* message, the user message built from the line, has at least one content
\* item; every message of the history, and so of the list, has a non-empty
\* content, and every assistant message has exactly one item, a text item.
C20_NoEmptyContent ==
    /\ \A i \in 1..Len(history) :
          /\ NonEmptyContent(history[i])
          /\ history[i].role = "assistant" => OneTextItem(history[i])
    /\ (parsed.called /\ ~Blanks(user_input) /\ ~IsExitLine(user_input)) =>
          /\ parsed.continue_flag
          /\ Len(ParsedContent) >= 1
          /\ \A i \in 1..Len(parsed.messages) :
                /\ NonEmptyContent(parsed.messages[i])
                /\ parsed.messages[i].role = "assistant" => OneTextItem(parsed.messages[i])

\* a line holding only a marker with an unknown extension, parsed after one
\* completed turn: the marker stays as the text of the one content item
C20_Witness ==
    /\ parsed.called
    /\ user_input = <<M("image", PathWebp)>>
    /\ Len(history) = 2
    /\ ParsedContent = <<[type |-> "text", text |-> <<M("image", PathWebp)>>]>>

-----------------------------------------------------------------------------
(* Properties of media resolution in a session, checked under Spec *)

\* the media loader calls made for item j of message i
CallsFor(log, i, j) == {k \in 1..Len(log) : log[k].message = i /\ log[k].item = j}

\* C21: in a session with the vision handler, a generate call asks the media
\* loader only for attachments of the turn's new message, never for a message
\* of the history, and for no attachment twice; when the turn succeeds, every
\* attachment of the new message has been asked for exactly once, with its
\* own locator, and the user message stored in the history holds the loaded
\* media in place of the locators, so that the history never holds a locator.
C21_ResolvedOnceInItsTurn ==
    /\ [][(pc = "generate" /\ handler.kind = "vision") =>
            LET n == Len(history) + 1
                new == messages[n].content
            IN  /\ Len(messages) = n
                /\ \A k \in 1..Len(loader_calls') :
                      /\ loader_calls'[k].message = n
                      /\ loader_calls'[k].item \in 1..Len(new)
                      /\ IsAttachment(new[loader_calls'[k].item])
                      /\ loader_calls'[k].locator = ItemLocator(new[loader_calls'[k].item])
                /\ \A j \in 1..Len(new) : Cardinality(CallsFor(loader_calls', n, j)) <= 1
                /\ last' = "response" =>
                      /\ \A j \in 1..Len(new) :
                            IsAttachment(new[j]) =>
                                Cardinality(CallsFor(loader_calls', n, j)) = 1
                      /\ Len(history') = n + 1
                      /\ \A j \in 1..Len(new) : SameItem(new[j], history'[n].content[j])
                      /\ SubSeq(history', 1, n - 1) = history]_vars
    /\ [](handler.kind = "vision" => unresolved(history) = {})

\* the second turn of a vision session: the image of the first turn is in the
\* history as loaded media, and the loader was only asked for the second
\* turn's video
C21_Witness ==
    /\ handler.kind = "vision"
    /\ last = "response"
    /\ Len(history) = 4
    /\ history[1].content[1] = [type |-> "image", image |-> PathJpg]
    /\ history[3].content[1] = [type |-> "video", frames |-> PathMp4]
    /\ loader_calls = <<[message |-> 3, item |-> 1, locator |-> PathMp4]>>

====
